---- MODULE Spec2Model ----
(***************************************************************************)
(* ollama-proxy: the call tracker (internal/tracker), the call state       *)
(* machine (internal/types), the streaming interceptor and the response    *)
(* forwarder (internal/proxy/interceptor), the owning request handler      *)
(* (internal/proxy) and the shutdown path of main.                         *)
(*                                                                         *)
(* Goroutines are processes: one per request handler, one disconnect       *)
(* watcher per forwarder, the event consumer of the TUI, and main.         *)
(* A step is one critical section, or one channel operation.               *)
(***************************************************************************)
EXTENDS Integers, Sequences, FiniteSets, TLC

(***************************************************************************)
(* Bounds of the model.                                                    *)
(***************************************************************************)
\* request-handler goroutines (one per client connection) of SpecTracker
NumHandlers == 2
\* calls created in one run of SpecTracker (fresh uuids are 1, 2, ...)
MaxCalls == 3
\* forwarder calls per exchange in SpecTracker
TrackerRelayOps == 1
\* connections, and calls created in one run, of Spec
SysHandlers == 1
SysCalls == 1
\* capacity of the event channel, scaled down from the 100 of NewCallTracker
ChanCap == 2
\* last value of the clock read by time.Now()
MaxTime == 3
\* WriteHeader/Write/Flush calls the forwarding engine makes per exchange
MaxRelayOps == 2
\* Write/Flush calls of the single exchange of SpecFwd
MaxFwdOps == 3
\* longest chunk handed to Write in SpecFwd
MaxChunkLen == 2

(***************************************************************************)
(* Program constants.                                                      *)
(***************************************************************************)
\* -max-calls, the capacity K of the store (50 by default; any K >= 1)
maxCalls == 2
StatusActive == "active"
StatusDone == "done"
StatusError == "error"
StatusDisconnected == "disconnected"
\* the zero time.Time (var oldestTime time.Time), and a nil *time.Time
ZeroTime == 0
NilTime == 0 - 1
\* the empty call id ("" of InterceptRequest's failure return, var oldestID)
NoId == 0
\* WriteHeader marks the call errored from this status code on
ErrorStatusFloor == 400
StatusBadGateway == 502
StatusInternalServerError == 500
\* status codes the forwarding engine hands to WriteHeader
Codes == {ErrorStatusFloor - 1, ErrorStatusFloor, StatusBadGateway}

Handlers == 1..NumHandlers
CallIds == 1..MaxCalls

(***************************************************************************)
(* encoding/json as Write uses it: json.Unmarshal(combined, &RawMessage)   *)
(* runs the scanner over every byte (checkValid) and then scanner.eof().   *)
(* The alphabet is "[", "]", "1" and " " (any JSON white space).           *)
(* A scanner state is [step, depth, endTop, err].                          *)
(***************************************************************************)
Alphabet == {"[", "]", "1", " "}

ScanInit == [step |-> "BeginValue", depth |-> 0, endTop |-> FALSE, err |-> FALSE]

ScanError(s) == [s EXCEPT !.err = TRUE]

\* stateEndTop: only white space may follow the top-level value
StateEndTop(s, c) == IF c = " " THEN s ELSE ScanError(s)

\* stateEndValue: after a value; at depth 0 the top-level value is complete
StateEndValue(s, c) ==
    IF s.depth = 0
    THEN StateEndTop([s EXCEPT !.step = "EndTop", !.endTop = TRUE], c)
    ELSE IF c = " " THEN [s EXCEPT !.step = "EndValue"]
    ELSE IF c = "]"
         THEN IF s.depth = 1
              THEN [s EXCEPT !.depth = 0, !.step = "EndTop", !.endTop = TRUE]
              ELSE [s EXCEPT !.depth = s.depth - 1, !.step = "EndValue"]
    ELSE ScanError(s)

\* stateBeginValue
StateBeginValue(s, c) ==
    IF c = " " THEN s
    ELSE IF c = "[" THEN [s EXCEPT !.step = "BeginValueOrEmpty", !.depth = s.depth + 1]
    ELSE IF c = "1" THEN [s EXCEPT !.step = "1"]
    ELSE ScanError(s)

\* one scanner step: s.step(s, c)
ScanStep(s, c) ==
    IF s.err THEN s
    ELSE CASE s.step = "BeginValue" -> StateBeginValue(s, c)
           [] s.step = "BeginValueOrEmpty" ->
                IF c = " " THEN s
                ELSE IF c = "]" THEN StateEndValue(s, c)
                ELSE StateBeginValue([s EXCEPT !.step = "BeginValue"], c)
           [] s.step = "1" -> IF c = "1" THEN s ELSE StateEndValue(s, c)
           [] s.step = "EndValue" -> StateEndValue(s, c)
           [] s.step = "EndTop" -> StateEndTop(s, c)

RECURSIVE ScanFrom(_, _, _)
ScanFrom(s, data, i) ==
    IF i > Len(data) THEN s ELSE ScanFrom(ScanStep(s, data[i]), data, i + 1)

\* scanner.eof(): a value that only lacks its end is closed by a space
ScanEof(s) ==
    IF s.err \/ s.endTop THEN s ELSE ScanStep(s, " ")

\* a decoder that accepts any text
UnmarshalAnything(data) == "ok"

\* json.Unmarshal's outcome: "ok", "eof" (unexpected end of JSON input) or
\* "syntax" (any other *json.SyntaxError)
Unmarshal(data) ==
    LET s == ScanFrom(ScanInit, data, 1)
    IN  IF s.err THEN "syntax"
        ELSE LET e == ScanEof(s)
             IN  IF e.err THEN "syntax" ELSE IF e.endTop THEN "ok" ELSE "eof"

\* a test that takes no decoding error for an incomplete value
NeverRecoverable(err) == FALSE

\* a test that takes every decoding error for an incomplete value
AlwaysRecoverable(err) == TRUE

\* isJSONErrorRecoverable(err)
isJSONErrorRecoverable(err) == err = "eof"

(***************************************************************************)
(* internal/types: the Call and its transitions, each under the call lock. *)
(***************************************************************************)
NewCallValue(t) ==
    [Status |-> StatusActive, StartTime |-> t, EndTime |-> NilTime, Response |-> <<>>]

\* an UpdateResponse that assigns where it should append
UpdateResponseAssigns(c, data) == [c EXCEPT !.Response = data]

UpdateResponse(c, data) == [c EXCEPT !.Response = c.Response \o data]

\* a MarkDone that forgets the endTime
MarkDoneNoEnd(c, t) == [c EXCEPT !.Status = StatusDone]

MarkDone(c, t) == [c EXCEPT !.EndTime = t, !.Status = StatusDone]

MarkError(c, t) == [c EXCEPT !.EndTime = t, !.Status = StatusError]

MarkDisconnected(c, t) == [c EXCEPT !.EndTime = t, !.Status = StatusDisconnected]

Event(id, data, done) == [ID |-> id, Data |-> data, Done |-> done]

(***************************************************************************)
(* State.                                                                  *)
(***************************************************************************)
VARIABLES
    calls,        \* CallTracker.calls: the ids the map retains
    obj,          \* the Call objects ever allocated; obj[id] is call id's
    mu,           \* CallTracker.mu: the goroutine holding the write lock
    eventChan,    \* CallTracker.eventChan: the buffered events
    closed,       \* whether eventChan has been closed
    enqueued,     \* history, per call id: the events sent on eventChan, in order
    pending,      \* history, per call id: the goroutines that have changed the
                  \* call and not yet sent the event, in the order of their changes
    delivered,    \* history, per call id: the events the consumer received, in order
    now,          \* the clock time.Now() reads
    pc,           \* where each goroutine stands
    frame,        \* the tracker call each goroutine is inside, if any
    cur,          \* per handler: the call id InterceptRequest returned
    arg,          \* per handler: the argument of the forwarder call in progress
    wrote,        \* per handler: the byte count its last Write returned
    opsLeft,      \* per handler: forwarder calls the relay may still make
    direct,       \* per handler: status codes written to the client locally
    errored,      \* responseForwarder.errored, per call id
    buffer,       \* responseForwarder.buffer, per call id
    doneCh,       \* responseForwarder.done: "nil", "open" or "closed"
    rmu,          \* responseForwarder.mu: the goroutine holding it
    forwarded,    \* the exchange's bytes written to the underlying ResponseWriter
    received,     \* history: the exchange's chunks handed to Write, concatenated
    statusSent,   \* the exchange's status codes passed on to the underlying ResponseWriter
    ctxCancelled, \* whether the request's context is cancelled
    cpc,          \* where the event consumer (TUI.Run) stands
    snapshot,     \* the pointers GetCalls returned to the consumer, as call ids
    mainpc        \* where main stands: "serve", "shutdown", "closed"

trackerVars == <<calls, obj, mu, eventChan, closed, enqueued, pending>>
handlerVars == <<cur, arg, wrote, opsLeft, direct>>
fwVars == <<errored, buffer, doneCh, rmu, forwarded, received, statusSent>>
consumerVars == <<delivered, cpc, snapshot>>
vars == <<trackerVars, handlerVars, fwVars, consumerVars, now, pc, frame,
          ctxCancelled, mainpc>>

\* goroutines: the handler of connection h, the watcher of call id's forwarder
H(h) == <<"h", h>>
W(id) == <<"w", id>>
NoProc == <<"none", 0>>
Procs == {H(h) : h \in Handlers} \cup {W(id) : id \in CallIds}

NoFrame == [op |-> "none", id |-> NoId, data |-> <<>>, at |-> "none"]
CallFrame(op, id, data) == [op |-> op, id |-> id, data |-> data, at |-> "lookup"]

\* NewCallTracker(maxCalls), an unused forwarder per future call id, and the
\* goroutines main starts
Init ==
    /\ calls = {}
    /\ obj = <<>>
    /\ mu = NoProc
    /\ eventChan = <<>>
    /\ closed = FALSE
    /\ enqueued = [id \in CallIds |-> <<>>]
    /\ pending = [id \in CallIds |-> <<>>]
    /\ delivered = [id \in CallIds |-> <<>>]
    /\ now = 1
    /\ pc = [p \in Procs |-> IF p[1] = "h" THEN "idle" ELSE "none"]
    /\ frame = [p \in Procs |-> NoFrame]
    /\ cur = [h \in Handlers |-> NoId]
    /\ arg = [h \in Handlers |-> <<>>]
    /\ wrote = [h \in Handlers |-> 0]
    /\ opsLeft = [h \in Handlers |-> 0]
    /\ direct = [h \in Handlers |-> <<>>]
    /\ errored = [id \in CallIds |-> FALSE]
    /\ buffer = [id \in CallIds |-> <<>>]
    /\ doneCh = [id \in CallIds |-> "nil"]
    /\ rmu = [id \in CallIds |-> NoProc]
    /\ forwarded = [id \in CallIds |-> <<>>]
    /\ received = [id \in CallIds |-> <<>>]
    /\ statusSent = [id \in CallIds |-> <<>>]
    /\ ctxCancelled = [id \in CallIds |-> FALSE]
    /\ cpc = "update" \* TUI.Run: the initial updateCallList
    /\ snapshot = <<>>
    /\ mainpc = "serve"

\* time passes
Tick ==
    /\ now < MaxTime
    /\ now' = now + 1
    /\ UNCHANGED <<trackerVars, handlerVars, fwVars, consumerVars, pc, frame,
                   ctxCancelled, mainpc>>

\* time.Now() in NewCall: the clock as it stands, or one tick later
TimeNow == {t \in {now, now + 1} : t <= MaxTime}

(***************************************************************************)
(* internal/tracker.                                                       *)
(***************************************************************************)
\* the orders in which `range t.calls` may visit the map
Orders(S) ==
    {o \in [1..Cardinality(S) -> S] : \A i, j \in 1..Cardinality(S) : o[i] = o[j] => i = j}

\* the loop of NewCall that finds the oldest call, visiting the map in `order`
RECURSIVE OldestScan(_, _, _, _)
OldestScan(order, i, oldestID, oldestTime) ==
    IF i > Len(order) THEN oldestID
    ELSE IF oldestTime = ZeroTime \/ obj[order[i]].StartTime < oldestTime
         THEN OldestScan(order, i + 1, order[i], obj[order[i]].StartTime)
         ELSE OldestScan(order, i + 1, oldestID, oldestTime)

\* a scan that compares nothing and keeps the call it visited last
LastVisitedID(order) == IF order = <<>> THEN NoId ELSE order[Len(order)]

OldestID(order) == OldestScan(order, 1, NoId, ZeroTime)

\* a capacity test that is late by one call
AtCapacityLate(n) == n > maxCalls

\* NewCall's capacity test
AtCapacity(n) == n >= maxCalls

\* what NewCall's clean-up deletes from the map
Evicted(order) == IF AtCapacity(Cardinality(calls)) THEN {OldestID(order)} \ {NoId} ELSE {}

\* a goroutine that panics runs its deferred unlocks
Unlocked(lock, p) == IF lock = p THEN NoProc ELSE lock

\* a send on eventChan: blocks while the buffer is full
CanSend == ~closed /\ Len(eventChan) < ChanCap

\* the goroutine's change is no longer waiting for its event
Settled(id, p) == pending' = [pending EXCEPT ![id] = SelectSeq(@, LAMBDA q : q # p)]

Send(e) ==
    /\ eventChan' = Append(eventChan, e)
    /\ enqueued' = [enqueued EXCEPT ![e.ID] = Append(@, e)]

\* the variables a goroutine changes when its tracker call returns or panics
contVars == <<pc, cur, arg, wrote, opsLeft, errored, buffer, doneCh, rmu, forwarded,
              received,
              statusSent, ctxCancelled>>

\* A forwarder is garbage once its handler has returned and its watcher, if
\* one was started, has ended: the exchange's state is dropped.
Served(id) == \E h \in Handlers : cur[h] = id

WatcherIdle(id) == pc[W(id)] \in {"none", "exit"}

Dropped(id) ==
    /\ errored' = [errored EXCEPT ![id] = FALSE]
    /\ buffer' = [buffer EXCEPT ![id] = <<>>]
    /\ doneCh' = [doneCh EXCEPT ![id] = "nil"]
    /\ forwarded' = [forwarded EXCEPT ![id] = <<>>]
    /\ received' = [received EXCEPT ![id] = <<>>]
    /\ statusSent' = [statusSent EXCEPT ![id] = <<>>]

Kept == UNCHANGED <<errored, buffer, doneCh, forwarded, received, statusSent>>

\* NewCall (called by InterceptRequest), first half: under t.mu.Lock, evict
\* the oldest call at capacity and insert the new call
NewCallInsert(h) ==
    /\ mu = NoProc
    /\ \E order \in Orders(calls), t \in TimeNow :
         LET id == Len(obj) + 1
         IN  /\ calls' = (calls \ Evicted(order)) \cup {id}
             /\ obj' = Append(obj, NewCallValue(t))
             /\ cur' = [cur EXCEPT ![h] = id]
             /\ pending' = [pending EXCEPT ![id] = <<H(h)>>]
             /\ now' = t
    /\ mu' = H(h)
    /\ pc' = [pc EXCEPT ![H(h)] = "NewCall"]
    /\ UNCHANGED <<eventChan, closed, enqueued, arg, wrote, opsLeft, direct, fwVars,
                   consumerVars, frame, ctxCancelled, mainpc>>

\* NewCall, second half: send the creation event, still under t.mu, and
\* unlock on return; InterceptRequest then builds the forwarder, and the
\* relay of n forwarder calls starts
NewCallSend(h, n) ==
    /\ pc[H(h)] = "NewCall"
    /\ \/ /\ CanSend
          /\ Send(Event(cur[h], <<>>, FALSE))
          /\ pc' = [pc EXCEPT ![H(h)] = "relay"]
          /\ opsLeft' = [opsLeft EXCEPT ![h] = n]
          /\ UNCHANGED <<cur, ctxCancelled>>
       \/ /\ closed \* send on a closed channel panics; net/http recovers
          /\ pc' = [pc EXCEPT ![H(h)] = "panic"]
          /\ ctxCancelled' = [ctxCancelled EXCEPT ![cur[h]] = TRUE]
          /\ cur' = [cur EXCEPT ![h] = NoId]
          /\ UNCHANGED <<eventChan, enqueued, opsLeft>>
    /\ mu' = NoProc
    /\ Settled(cur[h], H(h))
    /\ UNCHANGED <<calls, obj, closed, arg, wrote, direct, fwVars, consumerVars, now, frame,
                   mainpc>>

\* the caller of a tracker operation goes on when the operation returns
Returns(p) ==
    LET id == IF p[1] = "h" THEN cur[p[2]] ELSE p[2]
    IN  CASE pc[p] = "Write" ->
               \* case err == nil: clear the buffer, write combined to the client
               /\ forwarded' = [forwarded EXCEPT ![id] = @ \o buffer[id] \o arg[p[2]]]
               /\ buffer' = [buffer EXCEPT ![id] = <<>>]
               /\ rmu' = [rmu EXCEPT ![id] = NoProc]
               /\ pc' = [pc EXCEPT ![p] = "relay"]
               /\ arg' = [arg EXCEPT ![p[2]] = <<>>]
               \* return r.ResponseWriter.Write(combined)
               /\ wrote' = [wrote EXCEPT ![p[2]] = Len(buffer[id] \o arg[p[2]])]
               /\ UNCHANGED <<cur, opsLeft, errored, doneCh, received, statusSent,
                              ctxCancelled>>
          [] pc[p] = "WriteHeader" ->
               \* MarkError unlocks r.mu; the status goes to the client
               /\ rmu' = [rmu EXCEPT ![id] = NoProc]
               /\ statusSent' = [statusSent EXCEPT ![id] = Append(@, arg[p[2]][1])]
               /\ pc' = [pc EXCEPT ![p] = "relay"]
               /\ arg' = [arg EXCEPT ![p[2]] = <<>>]
               /\ UNCHANGED <<cur, wrote, opsLeft, errored, buffer, doneCh, forwarded,
                              received, ctxCancelled>>
          [] pc[p] = "CompleteCall" ->
               \* ServeHTTP returns; net/http cancels the request's context
               /\ pc' = [pc EXCEPT ![p] = "idle"]
               /\ ctxCancelled' = [ctxCancelled EXCEPT ![id] = TRUE]
               /\ cur' = [cur EXCEPT ![p[2]] = NoId]
               /\ opsLeft' = [opsLeft EXCEPT ![p[2]] = 0]
               /\ IF WatcherIdle(id) THEN Dropped(id) ELSE Kept
               /\ wrote' = [wrote EXCEPT ![p[2]] = 0]
               /\ UNCHANGED <<arg, rmu>>
          [] pc[p] = "handleClientDisconnect" ->
               \* r.errored = true, and r.mu is unlocked
               /\ IF Served(id)
                  THEN /\ errored' = [errored EXCEPT ![id] = TRUE]
                       /\ UNCHANGED <<buffer, doneCh, forwarded, received, statusSent>>
                  ELSE Dropped(id)
               /\ rmu' = [rmu EXCEPT ![id] = NoProc]
               /\ pc' = [pc EXCEPT ![p] = "exit"]
               /\ UNCHANGED <<cur, arg, wrote, opsLeft, ctxCancelled>>

\* a send on the closed channel panics: the deferred unlocks run and the
\* goroutine ends. net/http recovers a handler's panic and ends its request;
\* a watcher's panic ends the process and every goroutine with it.
Panics(p) ==
    /\ pc' = IF p[1] = "h" THEN [pc EXCEPT ![p] = "panic"] ELSE [q \in Procs |-> "panic"]
    /\ frame' = IF p[1] = "h" THEN [frame EXCEPT ![p] = NoFrame] ELSE [q \in Procs |-> NoFrame]
    /\ cpc' = IF p[1] = "h" THEN cpc ELSE "dead"
    /\ mainpc' = IF p[1] = "h" THEN mainpc ELSE "dead"
    /\ rmu' = [id \in CallIds |-> Unlocked(rmu[id], p)]
    /\ ctxCancelled' = [id \in CallIds |->
                          ctxCancelled[id] \/ (p[1] = "h" /\ cur[p[2]] = id)]
    /\ cur' = [h \in Handlers |-> IF p = H(h) THEN NoId ELSE cur[h]]
    /\ IF p[1] = "h" /\ WatcherIdle(cur[p[2]]) THEN Dropped(cur[p[2]]) ELSE Kept
    /\ wrote' = [h \in Handlers |-> IF p = H(h) THEN 0 ELSE wrote[h]]
    /\ UNCHANGED <<arg, opsLeft>>

\* a lookup that goes on to the call whether the map holds it or not
LookupBlind(p) ==
    /\ frame[p].at = "lookup"
    /\ mu = NoProc
    /\ frame' = [frame EXCEPT ![p].at = "mark"]
    /\ UNCHANGED contVars
    /\ UNCHANGED <<trackerVars, direct, consumerVars, now, mainpc>>

\* a lookup that returns with t.mu still held
LookupLocked(p) ==
    /\ frame[p].at = "lookup"
    /\ mu = NoProc
    /\ mu' = p
    /\ IF frame[p].id \in calls
       THEN /\ frame' = [frame EXCEPT ![p].at = "mark"]
            /\ UNCHANGED contVars
       ELSE /\ frame' = [frame EXCEPT ![p] = NoFrame]
            /\ Returns(p)
    /\ UNCHANGED <<calls, obj, eventChan, closed, enqueued, pending, direct,
                   consumerVars, now, mainpc>>

\* t.mu.RLock(); call, exists := t.calls[id]; t.mu.RUnlock()
Lookup(p) ==
    /\ frame[p].at = "lookup"
    /\ mu = NoProc
    /\ IF frame[p].id \in calls
       THEN /\ frame' = [frame EXCEPT ![p].at = "mark"]
            /\ UNCHANGED contVars
       ELSE /\ frame' = [frame EXCEPT ![p] = NoFrame]
            /\ Returns(p)
    /\ UNCHANGED <<trackerVars, direct, consumerVars, now, mainpc>>

\* the change a tracker operation makes to the call it found
Marked(op, c, data, t) ==
    CASE op = "UpdateCall" -> UpdateResponse(c, data)
      [] op = "CompleteCall" -> MarkDone(c, t)
      [] op = "ErrorCall" -> MarkError(c, t)
      [] op = "DisconnectCall" -> MarkDisconnected(c, t)

\* the event a tracker operation sends after the change
EventOf(op, id, data) ==
    CASE op = "UpdateCall" -> Event(id, data, FALSE)
      [] op = "CompleteCall" -> Event(id, <<>>, TRUE)
      [] op = "ErrorCall" -> Event(id, <<"Error occurred">>, TRUE)
      [] op = "DisconnectCall" -> Event(id, <<>>, TRUE)

\* whether the operation acts on the call it found: Disconnect alone is
\* guarded by the terminality rule
Acts(op, c) == op = "DisconnectCall" => c.Status = StatusActive

\* call.UpdateResponse / MarkDone / MarkError / MarkDisconnected, under c.mu
Mark(p) ==
    /\ frame[p].at = "mark"
    /\ IF Acts(frame[p].op, obj[frame[p].id])
       THEN /\ obj' = [obj EXCEPT ![frame[p].id] =
                          Marked(frame[p].op, @, frame[p].data, now)]
            /\ pending' = [pending EXCEPT ![frame[p].id] = Append(@, p)]
            /\ frame' = [frame EXCEPT ![p].at = "send"]
            /\ UNCHANGED contVars
       ELSE /\ frame' = [frame EXCEPT ![p] = NoFrame]
            /\ Returns(p)
            /\ UNCHANGED <<obj, pending>>
    /\ UNCHANGED <<calls, mu, eventChan, closed, enqueued, direct, consumerVars, now,
                   mainpc>>

\* t.eventChan <- types.Event{...}
Publish(p) ==
    /\ frame[p].at = "send"
    /\ \/ /\ CanSend
          /\ Send(EventOf(frame[p].op, frame[p].id, frame[p].data))
          /\ Returns(p)
          /\ frame' = [frame EXCEPT ![p] = NoFrame]
          /\ UNCHANGED <<cpc, mainpc>>
       \/ /\ closed
          /\ Panics(p)
          /\ UNCHANGED <<eventChan, enqueued>>
    /\ Settled(frame[p].id, p)
    /\ UNCHANGED <<calls, obj, mu, closed, direct, delivered, snapshot, now>>

UpdateCall(p) == frame[p].op = "UpdateCall" /\ (Lookup(p) \/ Mark(p) \/ Publish(p))

CompleteCall(p) == frame[p].op = "CompleteCall" /\ (Lookup(p) \/ Mark(p) \/ Publish(p))

ErrorCall(p) == frame[p].op = "ErrorCall" /\ (Lookup(p) \/ Mark(p) \/ Publish(p))

DisconnectCall(p) == frame[p].op = "DisconnectCall" /\ (Lookup(p) \/ Mark(p) \/ Publish(p))

\* the sort of GetCalls, most recent first, on the slice `s` filled by the range
RECURSIVE SortInner(_, _, _)
SortInner(s, i, j) ==
    IF j > Len(s) THEN s
    ELSE IF obj[s[i]].StartTime < obj[s[j]].StartTime
         THEN SortInner([s EXCEPT ![i] = s[j], ![j] = s[i]], i, j + 1)
         ELSE SortInner(s, i, j + 1)

RECURSIVE SortOuter(_, _)
SortOuter(s, i) == IF i > Len(s) THEN s ELSE SortOuter(SortInner(s, i, i + 1), i + 1)

\* a GetCalls that returns the slice as the range filled it
GetCallsUnsorted(order) == order

GetCalls(order) == SortOuter(order, 1)

\* CallTracker.Close, deferred by main
Close ==
    /\ mainpc = "shutdown"
    /\ closed' = TRUE
    /\ mainpc' = "closed"
    /\ UNCHANGED <<calls, obj, mu, eventChan, enqueued, pending, handlerVars, fwVars,
                   consumerVars, now, pc, frame, ctxCancelled>>

(***************************************************************************)
(* internal/proxy and internal/proxy/interceptor: the request handler.     *)
(***************************************************************************)
\* InterceptRequest, body read: creates the call. Connections are served
\* until main shuts the server down; `limit` bounds the calls of a run.
InterceptRequest(h, limit) ==
    /\ pc[H(h)] = "idle"
    /\ mainpc = "serve"
    /\ Len(obj) < limit
    /\ NewCallInsert(h)

\* an InterceptRequest that opens the call before it finds the body unread
InterceptRequestFailsTracked(h) ==
    /\ pc[H(h)] = "idle"
    /\ mainpc = "serve"
    /\ direct[h] = <<>>
    /\ Len(obj) < MaxCalls
    /\ obj' = Append(obj, NewCallValue(now))
    /\ calls' = calls \cup {Len(obj) + 1}
    /\ direct' = [direct EXCEPT ![h] = Append(@, StatusInternalServerError)]
    /\ pc' = [pc EXCEPT ![H(h)] = "panic"]
    /\ UNCHANGED <<mu, eventChan, closed, enqueued, pending, cur, arg, wrote, opsLeft,
                   fwVars,
                   consumerVars, now, frame, ctxCancelled, mainpc>>

\* InterceptRequest, body not read: a local 500, and nil, nil, "" returned,
\* which ServeHTTP hands to the forwarding engine: a nil dereference
InterceptRequestFails(h) ==
    /\ pc[H(h)] = "idle"
    /\ mainpc = "serve"
    /\ direct[h] = <<>>
    /\ direct' = [direct EXCEPT ![h] = Append(@, StatusInternalServerError)]
    /\ pc' = [pc EXCEPT ![H(h)] = "panic"]
    /\ UNCHANGED <<trackerVars, cur, arg, wrote, opsLeft, fwVars, consumerVars, now, frame,
                   ctxCancelled, mainpc>>

\* the handler is in the relay and the engine may call the forwarder
InRelay(h) == pc[H(h)] = "relay" /\ opsLeft[h] > 0

\* a WriteHeader whose MarkError does not look at r.errored
WriteHeaderUnguarded(h, code) ==
    LET id == cur[h]
    IN  /\ InRelay(h)
        /\ opsLeft' = [opsLeft EXCEPT ![h] = @ - 1]
        /\ IF code >= ErrorStatusFloor
           THEN /\ rmu[id] = NoProc
                /\ errored' = [errored EXCEPT ![id] = TRUE]
                /\ rmu' = [rmu EXCEPT ![id] = H(h)]
                /\ frame' = [frame EXCEPT ![H(h)] = CallFrame("ErrorCall", id, <<>>)]
                /\ pc' = [pc EXCEPT ![H(h)] = "WriteHeader"]
                /\ arg' = [arg EXCEPT ![h] = <<code>>]
                /\ UNCHANGED <<statusSent, wrote>>
           ELSE /\ statusSent' = [statusSent EXCEPT ![id] = Append(@, code)]
                /\ UNCHANGED <<errored, rmu, frame, pc, arg, wrote>>
        /\ UNCHANGED <<trackerVars, cur, direct, buffer, doneCh, forwarded, received,
                       consumerVars, now, ctxCancelled, mainpc>>

\* WriteHeader(statusCode): MarkError from 400 on (once: r.errored is
\* sticky), then the status goes to the client
WriteHeader(h, code) ==
    LET id == cur[h]
    IN  /\ InRelay(h)
        /\ opsLeft' = [opsLeft EXCEPT ![h] = @ - 1]
        /\ IF code >= ErrorStatusFloor
           THEN /\ rmu[id] = NoProc
                /\ IF errored[id]
                   THEN /\ statusSent' = [statusSent EXCEPT ![id] = Append(@, code)]
                        /\ UNCHANGED <<errored, rmu, frame, pc, arg, wrote>>
                   ELSE /\ errored' = [errored EXCEPT ![id] = TRUE]
                        /\ rmu' = [rmu EXCEPT ![id] = H(h)]
                        /\ frame' = [frame EXCEPT ![H(h)] = CallFrame("ErrorCall", id, <<>>)]
                        /\ pc' = [pc EXCEPT ![H(h)] = "WriteHeader"]
                        /\ arg' = [arg EXCEPT ![h] = <<code>>]
                        /\ UNCHANGED <<statusSent, wrote>>
           ELSE /\ statusSent' = [statusSent EXCEPT ![id] = Append(@, code)]
                /\ UNCHANGED <<errored, rmu, frame, pc, arg, wrote>>
        /\ UNCHANGED <<trackerVars, cur, direct, buffer, doneCh, forwarded, received,
                       consumerVars, now, ctxCancelled, mainpc>>

\* Write(data): the switch on json.Unmarshal(append(r.buffer, data...))
Write(h, data) ==
    LET id == cur[h]
        combined == buffer[id] \o data
        err == Unmarshal(combined)
    IN  /\ InRelay(h)
        /\ rmu[id] = NoProc
        /\ opsLeft' = [opsLeft EXCEPT ![h] = @ - 1]
        /\ received' = [received EXCEPT ![id] = @ \o data]
        /\ CASE err = "ok" ->
                  \* UpdateCall(callID, combined) first; see Returns
                  /\ rmu' = [rmu EXCEPT ![id] = H(h)]
                  /\ frame' = [frame EXCEPT ![H(h)] = CallFrame("UpdateCall", id, combined)]
                  /\ pc' = [pc EXCEPT ![H(h)] = "Write"]
                  /\ arg' = [arg EXCEPT ![h] = data]
                  /\ UNCHANGED <<buffer, forwarded, wrote>>
             [] err # "ok" /\ isJSONErrorRecoverable(err) ->
                  \* return len(data), nil
                  /\ buffer' = [buffer EXCEPT ![id] = combined]
                  /\ wrote' = [wrote EXCEPT ![h] = Len(data)]
                  /\ UNCHANGED <<rmu, frame, pc, arg, forwarded>>
             [] OTHER ->
                  /\ buffer' = [buffer EXCEPT ![id] = <<>>]
                  \* return r.ResponseWriter.Write(data)
                  /\ forwarded' = [forwarded EXCEPT ![id] = @ \o data]
                  /\ wrote' = [wrote EXCEPT ![h] = Len(data)]
                  /\ UNCHANGED <<rmu, frame, pc, arg>>
        /\ UNCHANGED <<trackerVars, cur, direct, errored, doneCh, statusSent,
                       consumerVars, now, ctxCancelled, mainpc>>

\* Flush: the buffered bytes go to the client, then the underlying Flush
Flush(h) ==
    LET id == cur[h]
    IN  /\ InRelay(h)
        /\ rmu[id] = NoProc
        /\ opsLeft' = [opsLeft EXCEPT ![h] = @ - 1]
        /\ forwarded' = [forwarded EXCEPT ![id] = @ \o buffer[id]]
        /\ buffer' = [buffer EXCEPT ![id] = <<>>]
        /\ UNCHANGED <<trackerVars, cur, arg, wrote, direct, errored, doneCh, rmu, received,
                       statusSent, consumerVars, now, pc, frame, ctxCancelled,
                       mainpc>>

\* the relay returns and ServeHTTP calls interceptor.CompleteCall(callID)
EndRelay(h) ==
    /\ pc[H(h)] = "relay"
    /\ frame' = [frame EXCEPT ![H(h)] = CallFrame("CompleteCall", cur[h], <<>>)]
    /\ pc' = [pc EXCEPT ![H(h)] = "CompleteCall"]
    /\ UNCHANGED <<trackerVars, handlerVars, fwVars, consumerVars, now, ctxCancelled,
                   mainpc>>

\* p.proxy.ServeHTTP(fw, req) panics: the forwarding engine aborts the
\* handler when the copy of the response fails. ServeHTTP defers nothing,
\* so the panic passes the CompleteCall written after the relay.
AbortRelay(h) ==
    /\ pc[H(h)] = "relay"
    /\ Panics(H(h))
    /\ UNCHANGED <<trackerVars, direct, delivered, snapshot, now>>

\* the client closes its connection while the handler serves the request
ClientDisconnect(h) ==
    LET id == cur[h]
    IN  /\ pc[H(h)] \in {"relay", "Write", "WriteHeader", "CompleteCall"}
        /\ ~ctxCancelled[id]
        /\ ctxCancelled' = [ctxCancelled EXCEPT ![id] = TRUE]
        /\ UNCHANGED <<trackerVars, handlerVars, fwVars, consumerVars, now, pc, frame,
                       mainpc>>

(***************************************************************************)
(* The disconnect watcher. setupContext and the forwarder's Close have no  *)
(* caller in the repository; the owner of the forwarder may call them      *)
(* while the exchange is relayed.                                          *)
(***************************************************************************)
\* setupContext(ctx): once per forwarder, starts the watcher goroutine
setupContext(h) ==
    LET id == cur[h]
    IN  /\ pc[H(h)] = "relay"
        /\ rmu[id] = NoProc
        /\ doneCh[id] = "nil"
        /\ doneCh' = [doneCh EXCEPT ![id] = "open"]
        /\ pc' = [pc EXCEPT ![W(id)] = "select"]
        /\ UNCHANGED <<trackerVars, handlerVars, errored, buffer, rmu, forwarded,
                       received, statusSent, consumerVars, now, frame, ctxCancelled,
                       mainpc>>

\* responseForwarder.Close: close(r.done) unless nil or closed already
FwClose(h) ==
    LET id == cur[h]
    IN  /\ pc[H(h)] = "relay"
        /\ rmu[id] = NoProc
        /\ doneCh[id] = "open"
        /\ doneCh' = [doneCh EXCEPT ![id] = "closed"]
        /\ UNCHANGED <<trackerVars, handlerVars, errored, buffer, rmu, forwarded,
                       received, statusSent, consumerVars, now, pc, frame,
                       ctxCancelled, mainpc>>

\* the watcher's select takes `case <-r.done`: the request completed
WatcherDone(id) ==
    /\ pc[W(id)] = "select"
    /\ doneCh[id] = "closed"
    /\ pc' = [pc EXCEPT ![W(id)] = "exit"]
    /\ IF Served(id) THEN Kept ELSE Dropped(id)
    /\ UNCHANGED <<trackerVars, handlerVars, rmu, consumerVars, now, frame,
                   ctxCancelled, mainpc>>

\* the watcher's select takes `case <-reqCtx.Done()`: handleClientDisconnect
\* under r.mu; both contexts report Canceled once the request's is cancelled
handleClientDisconnect(id) ==
    /\ pc[W(id)] = "select"
    /\ ctxCancelled[id]
    /\ rmu[id] = NoProc
    /\ IF errored[id] \/ doneCh[id] = "closed"
       THEN /\ pc' = [pc EXCEPT ![W(id)] = "exit"]
            /\ IF Served(id) THEN Kept ELSE Dropped(id)
            /\ UNCHANGED <<rmu, frame>>
       ELSE \* DisconnectCall(callID) first; see Returns
            /\ rmu' = [rmu EXCEPT ![id] = W(id)]
            /\ frame' = [frame EXCEPT ![W(id)] = CallFrame("DisconnectCall", id, <<>>)]
            /\ pc' = [pc EXCEPT ![W(id)] = "handleClientDisconnect"]
            /\ Kept
    /\ UNCHANGED <<trackerVars, handlerVars, consumerVars, now, ctxCancelled, mainpc>>

(***************************************************************************)
(* The event consumer (TUI.Run) and main.                                  *)
(***************************************************************************)
\* for event := range t.tracker.Events()
Receive ==
    /\ cpc = "recv"
    /\ eventChan # <<>>
    /\ delivered' = [delivered EXCEPT ![Head(eventChan).ID] = Append(@, Head(eventChan))]
    /\ eventChan' = Tail(eventChan)
    /\ cpc' = "update"
    /\ UNCHANGED <<calls, obj, mu, closed, enqueued, pending, handlerVars, fwVars, snapshot, now,
                   pc, frame, ctxCancelled, mainpc>>

\* updateCallList: calls := t.tracker.GetCalls(), under t.mu.RLock
updateCallList ==
    /\ cpc = "update"
    /\ mu = NoProc
    /\ \E order \in Orders(calls) : snapshot' = GetCalls(order)
    /\ cpc' = "render"
    /\ UNCHANGED <<trackerVars, handlerVars, fwVars, delivered, now, pc, frame,
                   ctxCancelled, mainpc>>

\* updateCallList, the loop over the calls GetCalls returned: reads each
\* call's Status, StartTime and EndTime through its pointer, without c.mu
updateCallListRender ==
    /\ cpc = "render"
    /\ snapshot' = <<>>
    /\ cpc' = "recv"
    /\ UNCHANGED <<trackerVars, handlerVars, fwVars, delivered, now, pc, frame,
                   ctxCancelled, mainpc>>

\* main: server.Shutdown returns, with handlers in flight when it timed out
Shutdown ==
    /\ mainpc = "serve"
    /\ mainpc' = "shutdown"
    /\ UNCHANGED <<trackerVars, handlerVars, fwVars, consumerVars, now, pc, frame,
                   ctxCancelled>>

\* the chunks the forwarding engine hands to Write
Chunks == {<<"[">>, <<"]">>}

(***************************************************************************)
(* Spec: one connection and its exchanges from InterceptRequest to the     *)
(* return of ServeHTTP, with the disconnect watcher, the event consumer    *)
(* and the shutdown of main.                                               *)
(***************************************************************************)
ServeHTTP(h) ==
    \/ InterceptRequest(h, SysCalls)
    \/ InterceptRequestFails(h)
    \/ NewCallSend(h, MaxRelayOps)
    \/ \E code \in Codes : WriteHeader(h, code)
    \/ \E data \in Chunks : Write(h, data)
    \/ Flush(h)
    \/ setupContext(h)
    \/ FwClose(h)
    \/ EndRelay(h)
    \/ AbortRelay(h)

Watcher(id) == WatcherDone(id) \/ handleClientDisconnect(id)

Tracker(p) == UpdateCall(p) \/ CompleteCall(p) \/ ErrorCall(p) \/ DisconnectCall(p)

Next ==
    \/ \E h \in 1..SysHandlers : ServeHTTP(h) \/ ClientDisconnect(h)
    \/ \E id \in CallIds : Watcher(id)
    \/ \E p \in Procs : Tracker(p)
    \/ Receive
    \/ updateCallList
    \/ updateCallListRender
    \/ Shutdown
    \/ Close
    \/ Tick

Spec == Init /\ [][Next]_vars

(***************************************************************************)
(* SpecTracker: concurrent handlers on one tracker; every exchange is one  *)
(* NewCall, at most TrackerRelayOps calls of UpdateCall or ErrorCall       *)
(* through the forwarder, and CompleteCall.                                *)
(***************************************************************************)
ServeTracked(h) ==
    \/ InterceptRequest(h, MaxCalls)
    \/ NewCallSend(h, TrackerRelayOps)
    \/ WriteHeader(h, StatusBadGateway)
    \/ Write(h, <<"1">>)
    \/ EndRelay(h)

NextTracker ==
    \/ \E h \in Handlers : ServeTracked(h)
    \/ \E h \in Handlers : UpdateCall(H(h)) \/ CompleteCall(H(h)) \/ ErrorCall(H(h))
    \/ Receive
    \/ updateCallList
    \/ updateCallListRender

SpecTracker == Init /\ [][NextTracker]_vars

(***************************************************************************)
(* SpecFwd: one exchange, whose relay hands the forwarder any chunks over  *)
(* the alphabet, Write after Write; one chunk holds two values at once.    *)
(***************************************************************************)
TwoValues == <<"[", "]", "[", "]">>

FwdChunks ==
    UNION {[1..n -> Alphabet] : n \in 1..MaxChunkLen} \cup {TwoValues}

NextFwd ==
    \/ InterceptRequest(1, 1)
    \/ NewCallSend(1, MaxFwdOps)
    \/ \E data \in FwdChunks : Write(1, data)
    \/ EndRelay(1)
    \/ UpdateCall(H(1))
    \/ CompleteCall(H(1))
    \/ Receive
    \/ updateCallList
    \/ updateCallListRender

SpecFwd == Init /\ [][NextFwd]_vars

(***************************************************************************)
(* SpecFlush: the exchange of SpecFwd, whose relay also calls Flush.       *)
(***************************************************************************)
NextFlush ==
    \/ InterceptRequest(1, 1)
    \/ NewCallSend(1, MaxFwdOps)
    \/ \E data \in FwdChunks : Write(1, data)
    \/ Flush(1)
    \/ EndRelay(1)
    \/ UpdateCall(H(1))
    \/ CompleteCall(H(1))
    \/ Receive
    \/ updateCallList
    \/ updateCallListRender

SpecFlush == Init /\ [][NextFlush]_vars

(***************************************************************************)
(* Properties.                                                             *)
(***************************************************************************)
Created == DOMAIN obj

\* the handler stands between two forwarder calls of its exchange
BetweenCalls(h) == pc[H(h)] \in {"relay", "CompleteCall"}

\* C1: once a call's status is no longer Active, no later Complete, Fail or
\* Disconnect changes its status or its endTime.
C1_FirstTerminalWins ==
    [][\A id \in Created :
          obj[id].Status # StatusActive =>
              /\ obj'[id].Status = obj[id].Status
              /\ obj'[id].EndTime = obj[id].EndTime]_vars

\* C2: once WriteHeader has passed on a status >= 400 of a retained call
\* (here: of a forwarder without watcher, so that the call was Active), the
\* call's status is Error, also after the handler's CompleteCall.
C2_ErrorIsSticky ==
    \A id \in calls :
        (/\ doneCh[id] = "nil"
         /\ \E i \in DOMAIN statusSent[id] : statusSent[id][i] >= ErrorStatusFloor)
            => obj[id].Status = StatusError

\* C3: between two Write calls, the bytes forwarded to the client followed
\* by the bytes held in the buffer are the chunks received, in order.
C3_NoByteDiscarded ==
    \A h \in Handlers :
        BetweenCalls(h) => forwarded[cur[h]] \o buffer[cur[h]] = received[cur[h]]

\* the number of values of which `data` is the concatenation, -1 when it is
\* none: a value ends where the scanner has seen it whole and cannot go on
RECURSIVE CountFrom(_, _, _, _)
CountFrom(s, data, i, n) ==
    IF i > Len(data)
    THEN IF ScanEof(s).endTop THEN n + 1
         ELSE IF s = ScanInit THEN n ELSE 0 - 1
    ELSE LET t == ScanStep(s, data[i])
         IN  IF ~t.err THEN CountFrom(t, data, i + 1, n)
             ELSE IF ScanEof(s).endTop /\ ~ScanStep(ScanInit, data[i]).err
                  THEN CountFrom(ScanStep(ScanInit, data[i]), data, i + 1, n + 1)
                  ELSE 0 - 1

ValueCount(data) == CountFrom(ScanInit, data, 1, 0)

\* only arrays, written without white space: the values are told apart
\* in one way only
ArraysOnly(data) == \A i \in DOMAIN data : data[i] \in {"[", "]"}

\* the response-append updates the tracker published for a call
Appends(id) == SelectSeq(enqueued[id], LAMBDA e : ~e.Done /\ e.Data # <<>>)

\* C4: when the chunks written so far are N well-formed values, split
\* anywhere, the client has received exactly their concatenation and the
\* tracker exactly N response-append updates.
C4_ValuesReassembled ==
    \A h \in Handlers :
        LET id == cur[h]
        IN  (/\ BetweenCalls(h)
             /\ ArraysOnly(received[id])
             /\ ValueCount(received[id]) >= 1)
                => /\ forwarded[id] = received[id]
                   /\ Len(Appends(id)) = ValueCount(received[id])

\* C5: a call that has become Disconnected stays Disconnected, with its
\* endTime, whatever marks it Done or Error later.
C5_DisconnectedIsFinal ==
    [][\A id \in Created :
          obj[id].Status = StatusDisconnected =>
              /\ obj'[id].Status = StatusDisconnected
              /\ obj'[id].EndTime = obj[id].EndTime]_vars

\* C6: the store never holds more than maxCalls calls.
C6_StoreBounded == Cardinality(calls) <= maxCalls

\* the store has evicted, is full again, and a handler is inside a
\* tracker operation
C6_Witness ==
    /\ Len(obj) > maxCalls
    /\ Cardinality(calls) = maxCalls
    /\ \E h \in Handlers : frame[H(h)].at = "mark"

Earliest(S) == {v \in S : \A c \in S : obj[v].StartTime <= obj[c].StartTime}

StartsIncrease == \A i, j \in Created : i < j => obj[i].StartTime < obj[j].StartTime

\* C7: a creation at capacity removes exactly one call, one of the
\* earliest startTime; a creation below capacity removes none; after
\* maxCalls + 1 creations of increasing startTime the store holds the
\* maxCalls latest calls and not the first.
C7_EvictsEarliest ==
    /\ []((Len(obj) = maxCalls + 1 /\ StartsIncrease) => calls = 2..(maxCalls + 1))
    /\ [][Len(obj') # Len(obj) =>
            LET new == Len(obj')
            IN  /\ new = Len(obj) + 1
                /\ IF Cardinality(calls) >= maxCalls
                   THEN \E v \in Earliest(calls) : calls' = (calls \ {v}) \cup {new}
                   ELSE calls' = calls \cup {new}]_vars

\* maxCalls + 1 calls were created one after the other, and the first is gone
C7_Witness ==
    /\ Len(obj) = maxCalls + 1
    /\ StartsIncrease
    /\ 1 \notin calls
    /\ Cardinality(calls) = maxCalls

\* C8: a retained call has its endTime set exactly when its status is not
\* Active.
C8_EndTimeIffTerminal ==
    \A id \in calls : (obj[id].EndTime # NilTime) <=> (obj[id].Status # StatusActive)

\* a call has been marked Done with its endTime, and its event is still
\* to be published
C8_Witness ==
    \E id \in calls :
        /\ obj[id].Status = StatusDone
        /\ obj[id].EndTime # NilTime
        /\ \E h \in Handlers : frame[H(h)] = [CallFrame("CompleteCall", id, <<>>) EXCEPT !.at = "send"]

\* C9: once the feed is closed, no goroutine comes to publish on it.
C9_NoPublishAfterClose ==
    closed => \A p \in Procs : frame[p].at # "send" /\ pc[p] # "NewCall"

QueuedOf(id) == SelectSeq(eventChan, LAMBDA e : e.ID = id)

\* C10: the queue stays within its capacity, the consumer receives each
\* call's events in the order they were enqueued, and every operation that
\* comes to publish enqueues its event.
C10_NoEventLost ==
    /\ [](/\ Len(eventChan) <= ChanCap
          /\ \A id \in CallIds : delivered[id] \o QueuedOf(id) = enqueued[id])
    /\ [][\A p \in Procs :
            (\/ frame[p].at = "send" /\ frame'[p].at # "send"
             \/ pc[p] = "NewCall" /\ pc'[p] # "NewCall")
                => \E id \in CallIds : Len(enqueued'[id]) = Len(enqueued[id]) + 1]_vars

\* the events ErrorCall published for a call
ErrorEvents(id) == SelectSeq(enqueued[id], LAMBDA e : e.Done /\ e.Data = <<"Error occurred">>)

ErrorCodes(id) == SelectSeq(statusSent[id], LAMBDA code : code >= ErrorStatusFloor)

\* C11: however often WriteHeader is called with a status >= 400 on one
\* forwarder, the tracker gets one ErrorCall and publishes one error event:
\* only the first such call is inside ErrorCall, and each call passes
\* its status on to the client.
C11_ErrorReportedOnce ==
    /\ [](\A id \in CallIds : Len(ErrorEvents(id)) <= 1)
    /\ [](\A h \in Handlers :
            LET id == cur[h]
            IN  /\ pc[H(h)] = "WriteHeader" => ErrorCodes(id) = <<>>
                /\ (BetweenCalls(h) /\ doneCh[id] = "nil" /\ id \in calls)
                      => Len(ErrorEvents(id)) = IF ErrorCodes(id) = <<>> THEN 0 ELSE 1)
    /\ [][\A h \in Handlers :
            (pc[H(h)] = "WriteHeader" /\ pc'[H(h)] = "relay")
                => statusSent'[cur[h]] = Append(statusSent[cur[h]], arg[h][1])]_vars

\* WriteHeader has passed on two statuses >= 400 and one error event exists
C11_Witness ==
    \E h \in Handlers :
        /\ BetweenCalls(h)
        /\ Len(ErrorCodes(cur[h])) = 2
        /\ Len(ErrorEvents(cur[h])) = 1

\* the chunk a Write step receives
Chunk(id) == SubSeq(received'[id], Len(received[id]) + 1, Len(received'[id]))

WriteStep(id) == id # NoId /\ Len(received'[id]) > Len(received[id])

Grown(id) == SubSeq(obj'[id].Response, Len(obj[id].Response) + 1, Len(obj'[id].Response))

\* C14: whatever Write and Flush calls are made, every text handed to
\* UpdateCall, every text published as an append, and every text a step
\* adds to a call's response, is one complete well-formed value.
C14_AppendsAreValues ==
    /\ [](\A p \in Procs : frame[p].op = "UpdateCall" => ValueCount(frame[p].data) = 1)
    /\ [](\A id \in Created :
            \A i \in DOMAIN Appends(id) : ValueCount(Appends(id)[i].Data) = 1)
    /\ [][\A id \in Created :
            obj'[id].Response # obj[id].Response => ValueCount(Grown(id)) = 1]_vars

\* an incomplete text has been flushed to the client, and the next chunk, a
\* value of its own, has been appended
C14_Witness ==
    \E h \in Handlers :
        /\ BetweenCalls(h)
        /\ Unmarshal(received[cur[h]]) = "eof"
        /\ forwarded[cur[h]] = received[cur[h]]
        /\ Len(Appends(cur[h])) >= 1
        /\ obj[cur[h]].Response # <<>>

Listed == {snapshot[i] : i \in DOMAIN snapshot}

\* C16: what GetCalls returned does not change under the reader's eyes, and
\* no goroutine stands before a write to a call (under the call's lock)
\* while the reader, which takes no lock, reads that call.
C16_SnapshotIsolated ==
    /\ [](cpc = "render" =>
            \A p \in Procs :
                (frame[p].at = "mark" /\ Acts(frame[p].op, obj[frame[p].id]))
                    => frame[p].id \notin Listed)
    /\ [][(cpc = "render" /\ cpc' = "render") =>
            \A id \in Listed : obj'[id] = obj[id]]_vars

\* C17: the slice GetCalls returns holds every retained call once, from
\* the latest startTime to the earliest, whatever the store holds.
C17_ListOrdered ==
    [][(cpc = "update" /\ cpc' = "render") =>
          /\ Len(snapshot') = Cardinality(calls)
          /\ {snapshot'[i] : i \in DOMAIN snapshot'} = calls
          /\ \A i, j \in DOMAIN snapshot' :
                i < j => obj[snapshot'[i]].StartTime >= obj[snapshot'[j]].StartTime]_vars

\* a full store has been listed, the later call first
C17_Witness ==
    /\ cpc = "render"
    /\ Len(snapshot) = maxCalls
    /\ Len(obj) > maxCalls
    /\ Listed = calls
    /\ obj[snapshot[1]].StartTime > obj[snapshot[Len(snapshot)]].StartTime

\* C18: a call's events are enqueued, and so delivered, in the order in
\* which the changes they report took effect, whichever goroutines made
\* the changes; the creation event is the call's first.
C18_EventsInMutationOrder ==
    /\ [](\A id \in Created :
            /\ enqueued[id] # <<>> => Head(enqueued[id]) = Event(id, <<>>, FALSE)
            /\ enqueued[id] = <<>> => \A p \in Procs : frame[p].id # id
            /\ delivered[id] \o QueuedOf(id) = enqueued[id])
    /\ [][\A id \in CallIds :
            enqueued'[id] # enqueued[id] => pending'[id] = Tail(pending[id])]_vars

IsPrefix(s, t) == Len(s) <= Len(t) /\ SubSeq(t, 1, Len(s)) = s

\* C20: in every step the response a call had is a prefix of the response
\* it has next, and an UpdateCall(id, data) that changes a call puts
\* exactly data at the end of its response.
C20_ResponseAppendOnly ==
    [][/\ \A id \in Created : IsPrefix(obj[id].Response, obj'[id].Response)
       /\ \A p \in Procs :
             (frame[p].op = "UpdateCall" /\ frame[p].at = "mark" /\ frame'[p].at = "send")
                => obj'[frame[p].id].Response = obj[frame[p].id].Response \o frame[p].data]_vars

\* two values have been appended, one after the other
C20_Witness ==
    \E id \in calls :
        /\ Len(Appends(id)) = 2
        /\ obj[id].Response = Appends(id)[1].Data \o Appends(id)[2].Data
        /\ Appends(id)[1].Data # Appends(id)[2].Data

\* C21: the count a successful Write returns is the length of the chunk it
\* was given: in the branch that buffers, in the branch that passes a
\* malformed chunk on, and on the return of the branch that forwards a
\* completed value.
C21_WriteReturnsChunkLength ==
    [][\A h \in Handlers :
          LET id == cur[h]
          IN  /\ (WriteStep(id) /\ pc'[H(h)] = "relay") => wrote'[h] = Len(Chunk(id))
              /\ (pc[H(h)] = "Write" /\ pc'[H(h)] = "relay") => wrote'[h] = Len(arg[h])]_vars

\* the steps of a handler in which the forwarding engine relays its exchange
Relaying(h) == pc[H(h)] \in {"relay", "Write", "WriteHeader"}

\* C22: however the relay of a tracked exchange ends, the handler goes on to
\* CompleteCall for its call (while the process lives); without it the call
\* would stay Active for good.
C22_CompleteAfterRelay ==
    [][\A h \in Handlers :
          (Relaying(h) /\ ~Relaying(h)' /\ mainpc' # "dead")
             => /\ pc'[H(h)] = "CompleteCall"
                /\ frame'[H(h)] = CallFrame("CompleteCall", cur[h], <<>>)]_vars

\* C23: a watcher that takes the forwarder's lock after the done marker was
\* set ends without a DisconnectCall, and no step takes a Disconnected call
\* on to Done or Error: the watcher and the completion of the request
\* exclude each other.
C23_WatcherOrCompletion ==
    [][\A id \in Created :
          /\ (pc[W(id)] = "select" /\ doneCh[id] = "closed" /\ pc'[W(id)] # "select")
                => /\ pc'[W(id)] \in {"exit", "panic"}
                   /\ obj'[id] = obj[id]
          /\ obj[id].Status = StatusDisconnected
                => obj'[id].Status \notin {StatusDone, StatusError}]_vars

\* C24: the map lock is never held by a goroutine that waits at its send for
\* room in the full event channel, where it would keep GetCalls, GetCall and
\* the lookups of the other calls' operations out.
C24_MapLockNotHeldAtSend ==
    \A p \in Procs :
        (mu = p /\ pc[p] = "NewCall") => (closed \/ Len(eventChan) < ChanCap)

\* C25: a goroutine that is about to take a call's lock does not hold the
\* map lock, and the steps that take or release the map lock, like the
\* listing of the consumer, change no field of a call: the two locks are
\* never held together.
C25_NoCallLockUnderMapLock ==
    /\ [](\A p \in Procs : frame[p].at = "mark" => mu # p)
    /\ [][(mu' # mu \/ (cpc = "update" /\ cpc' = "render"))
             => \A id \in Created : obj'[id] = obj[id]]_vars

\* one handler is about to mark its call while the other one, evicting,
\* holds the map lock
C25_Witness ==
    \E p, q \in Procs :
        /\ p # q
        /\ frame[p].at = "mark"
        /\ mu = q
        /\ Cardinality(calls) < Len(obj)

\* Without Flush the client receives, besides the appended values, only
\* chunks that were passed on as malformed: between two forwarder calls the
\* forwarded text differs from the call's response exactly when a malformed
\* chunk has come.
MalformedSeen(h) ==
    /\ pc[H(h)] = "relay"
    /\ cur[h] \in Created
    /\ forwarded[cur[h]] # obj[cur[h]].Response

\* C26: once a malformed chunk has come, every later Write of the stream
\* forwards its chunk at once as it came, keeps nothing in the buffer and
\* makes no tracker call.
C26_NoBufferingAfterMalformed ==
    [][\A h \in Handlers :
          LET id == cur[h]
          IN  (MalformedSeen(h) /\ WriteStep(id))
                 => /\ forwarded'[id] = forwarded[id] \o Chunk(id)
                    /\ buffer'[id] = <<>>
                    /\ <<frame, obj, enqueued, eventChan>>' = <<frame, obj, enqueued, eventChan>>]_vars

\* a step of Flush: a forwarder call that takes no chunk, sends no status and
\* makes no tracker call
FlushStep(h) ==
    /\ pc[H(h)] = "relay"
    /\ opsLeft'[h] < opsLeft[h]
    /\ <<received, statusSent, pc>>' = <<received, statusSent, pc>>

\* C27: Flush hands the buffered bytes to the client once and empties the
\* buffer, and between any two calls of Write and Flush, in any order, the
\* bytes forwarded followed by the buffered ones are the chunks received.
C27_FlushConserves ==
    /\ [][\A h \in Handlers :
             FlushStep(h) => /\ forwarded'[cur[h]] = forwarded[cur[h]] \o buffer[cur[h]]
                             /\ buffer'[cur[h]] = <<>>]_vars
    /\ [](\A h \in Handlers :
             pc[H(h)] = "relay"
                => forwarded[cur[h]] \o buffer[cur[h]] = received[cur[h]])

\* the call is Active and a handler is relaying its exchange
InProgress(id) ==
    /\ obj[id].Status = StatusActive
    /\ \E h \in Handlers : cur[h] = id /\ pc[H(h)] \in {"relay", "Write", "WriteHeader"}

\* C28: a call leaves the map only in the step of NewCall that inserts a new
\* call, and the call that leaves is not one in progress.
C28_OnlyCreationEvicts ==
    [][\A id \in calls :
          id \notin calls'
             => /\ Len(obj') = Len(obj) + 1
                /\ \E h \in Handlers : pc[H(h)] = "idle" /\ pc'[H(h)] = "NewCall"
                /\ ~InProgress(id)]_vars

\* C29: of the events published for a call, only the last can have
\* Done = TRUE: there is one such event at most and none comes after it.
C29_DoneEventIsLast ==
    \A id \in Created :
        \A i \in DOMAIN enqueued[id] :
            enqueued[id][i].Done => i = Len(enqueued[id])

\* C30: a handler whose request body could not be read answers 500 and
\* returns: it does not enter the forwarding engine with the nil writer and
\* request, where it would panic, and it starts no tracker operation.
C30_UnreadBodyEndsHandling ==
    [][\A h \in Handlers :
          (pc[H(h)] = "idle" /\ direct'[h] = Append(direct[h], StatusInternalServerError))
             => /\ pc'[H(h)] = "idle"
                /\ frame'[H(h)] = NoFrame
                /\ cur'[h] = NoId]_vars

====
